---- MODULE Spec2Model ----
(***************************************************************************)
(* Model of the document-chunk-vector store of src/mcp_server.py: the      *)
(* process-wide RAGSystem (metadata dictionary, FAISS flat index), its     *)
(* on-disk artifacts, and the tools upload_pdf, search_documents,          *)
(* list_documents, delete_document and get_rag_stats.                      *)
(*                                                                         *)
(* Python dictionaries keep insertion order, so a dictionary is a sequence *)
(* of records with a key field k.  A chunk's text is a small integer, the  *)
(* embedding model is a fixed deterministic table from texts to integer    *)
(* vectors, and a score is the inner product of two such vectors.          *)
(***************************************************************************)
EXTENDS Integers, Sequences, FiniteSets, TLC

\* ------------------------------------------------------------------ bounds
MaxChunkId == 3      \* upload_pdf is called while the ids it takes stay below MaxChunkId
MaxFaults == 1       \* calls of upload_pdf / delete_document that raise, per run
MaxChunks == 2       \* chunks per uploaded document: 1..MaxChunks
MaxTextLen == 7      \* _create_text_chunks is given texts of 0..MaxTextLen characters
MaxChunkSize == 5    \* ... with chunk_size in 1..MaxChunkSize, overlap in 0..MaxChunkSize
Scale == 2           \* the default call at 1:100/Scale: chunk_size 10 * Scale, overlap 2 * Scale

\* top_k: int = 5 of search_documents
DefaultTopK == 5

Paths == {"a.pdf", "b.pdf"}
Texts == {1, 2}
TopKs == {1, DefaultTopK}
None == "None"

\* ------------------------------------------------------- python primitives
Digits == <<"0", "1", "2", "3", "4", "5", "6", "7", "8", "9">>

RECURSIVE Str(_)
\* str(chunk_id) / f"{chunk_id}": the decimal numeral of a natural number
Str(n) ==
    IF n < 10 THEN Digits[n + 1] ELSE Str(n \div 10) \o Digits[(n % 10) + 1]

\* hashlib.md5(str(file_path).encode()).hexdigest(): a digest per path
Md5(p) ==
    IF p = "a.pdf" THEN "md5_a" ELSE "md5_b"

\* Path.stem: the file name without its suffix
Stem(p) ==
    IF p = "a.pdf" THEN "a" ELSE "b"

DocIds == {Md5(p) : p \in Paths}

\* embedding_model.encode([text])[0]: deterministic, fixed dimension
Embed(t) ==
    <<t, 3 - t>>

\* the dimension of the vectors the embedding model returns
EmbedDim ==
    Len(Embed(1))

\* an index whose dimension is not that of the embeddings
DimMismatch(ix) ==
    \E r \in 1..Len(ix) : Len(ix[r]) # EmbedDim

\* inner product, the score of faiss.IndexFlatIP
Dot(u, v) ==
    u[1] * v[1] + u[2] * v[2]

\* ---------------------------------------------------------- dictionaries
Keys(d) ==
    {d[i].k : i \in 1..Len(d)}

HasKey(d, key) ==
    key \in Keys(d)

DictGet(d, key) ==
    d[CHOOSE i \in 1..Len(d) : d[i].k = key]

\* a variant of d[key] = rec that moves an existing key to the end
DictSetLast(d, rec) ==
    Append(SelectSeq(d, LAMBDA r : r.k # rec.k), rec)

\* d[key] = rec: an existing key keeps its position, a new key is appended
DictSet(d, rec) ==
    IF HasKey(d, rec.k)
    THEN [i \in 1..Len(d) |-> IF d[i].k = rec.k THEN rec ELSE d[i]]
    ELSE Append(d, rec)

\* a variant of del d[key] that also drops every entry inserted after the key
DictDelFrom(d, key) ==
    IF \E i \in 1..Len(d) : d[i].k = key
    THEN SubSeq(d, 1, (CHOOSE i \in 1..Len(d) : d[i].k = key) - 1)
    ELSE d

DictDel(d, key) ==
    SelectSeq(d, LAMBDA r : r.k # key)

\* ------------------------------------------------------------------ state
VARIABLES
    metadata,       \* rag_system.metadata: [documents, chunks, next_chunk_id]
    index,          \* rag_system.index: the rows of the flat index, row i at index[i+1]
    metadata_file,  \* metadata.json: <<>> when absent, else <<metadata>>
    index_file,     \* faiss_index.bin: <<>> when absent, else <<rows>>
    chunk_files,    \* chunks/<id>.txt: dictionary numeral -> text
    emb_files,      \* embeddings/<id>.npy: dictionary numeral -> vector
    doc_files,      \* documents/<doc_id>.txt: set of document ids with a file
    result,         \* what the last tool call returned
    faults,         \* how many mutating calls have raised so far
    issued,         \* history: the chunk ids handed out since the store was created
    proc,           \* the server process: "down", "running" or "aborted"
    chunker         \* the locals of a call of _create_text_chunks, and the
                    \* history windows: <<start, end>> of each chunk appended

vars == <<metadata, index, metadata_file, index_file, chunk_files, emb_files,
          doc_files, result, faults, issued, proc, chunker>>

\* no call of _create_text_chunks is in progress
NoCall ==
    [pc |-> "idle"]

\* the value of metadata while no process holds a rag_system (index is then
\* without rows)
NoRagSystem ==
    [rag_system |-> None]

EmptyMetadata ==
    [documents |-> <<>>, chunks |-> <<>>, next_chunk_id |-> 0]

Init ==
    /\ metadata = EmptyMetadata
    /\ index = <<>>
    /\ metadata_file = <<>>
    /\ index_file = <<>>
    /\ chunk_files = <<>>
    /\ emb_files = <<>>
    /\ doc_files = {}
    /\ result = [op |-> "init", status |-> "none"]
    /\ faults = 0
    /\ issued = {}
    /\ proc = "running"
    /\ chunker = NoCall

\* ------------------------------------------------------------ persistence
\* a variant of the dump that writes the initial next_chunk_id
JsonDumpNoCounter(md) ==
    <<md.documents, md.chunks, 0>>

\* json.dump(self.metadata, f): the JSON object as the tuple of its members
JsonDump(md) ==
    <<md.documents, md.chunks, md.next_chunk_id>>

\* json.load(f)
JsonLoad(t) ==
    [documents |-> t[1], chunks |-> t[2], next_chunk_id |-> t[3]]

RECURSIVE Flatten(_)
\* the row-major array of the index rows
Flatten(rows) ==
    IF rows = <<>> THEN <<>> ELSE Head(rows) \o Flatten(Tail(rows))

\* faiss.write_index(self.index, ...): dimension, row count, flat array
WriteIndex(ix) ==
    [d |-> 2, ntotal |-> Len(ix), xb |-> Flatten(ix)]

\* faiss.read_index(...)
ReadIndex(f) ==
    [r \in 1..f.ntotal |-> SubSeq(f.xb, (r - 1) * f.d + 1, r * f.d)]

\* RAGSystem._load_metadata
LoadMetadata(file) ==
    IF file # <<>> THEN JsonLoad(file[1]) ELSE EmptyMetadata

\* RAGSystem._load_or_create_index
LoadOrCreateIndex(file) ==
    IF file # <<>> THEN ReadIndex(file[1]) ELSE <<>>

\* a metadata.json that is not JSON
Corrupt == "corrupt"

\* json.load(f) returns (it raises JSONDecodeError otherwise)
JsonParses(t) ==
    t # Corrupt

\* a variant of the start that takes the initial metadata when the artifact
\* does not parse
RestartResetsMetadata ==
    /\ IF metadata_file # <<>> /\ ~JsonParses(metadata_file[1])
       THEN metadata' = EmptyMetadata
       ELSE metadata' = LoadMetadata(metadata_file)
    /\ proc' = "running"
    /\ index' = LoadOrCreateIndex(index_file)
    /\ result' = [op |-> "restart", status |-> "none"]
    /\ UNCHANGED <<metadata_file, index_file, chunk_files, emb_files, doc_files,
                   faults, issued, chunker>>

\* rag_system = RAGSystem() of a new process over the same storage directory;
\* an exception of _load_metadata is not caught and ends the process before
\* _load_or_create_index and mcp.run()
Restart ==
    /\ IF metadata_file # <<>> /\ ~JsonParses(metadata_file[1])
       THEN /\ proc' = "aborted"
            /\ metadata' = NoRagSystem
            /\ index' = <<>>
            /\ result' = [op |-> "restart", status |-> "aborted"]
       ELSE /\ proc' = "running"
            /\ metadata' = LoadMetadata(metadata_file)
            /\ index' = LoadOrCreateIndex(index_file)
            /\ result' = [op |-> "restart", status |-> "none"]
    /\ UNCHANGED <<metadata_file, index_file, chunk_files, emb_files, doc_files,
                   faults, issued, chunker>>

\* ------------------------------------------------------------- upload_pdf
AllPaths == Paths \cup {"missing.pdf", "notes.txt", "scan.PDF"}

\* the calls made: a.pdf without a document_name, b.pdf under a given name
UploadArgs ==
    {[file_path |-> "a.pdf", document_name |-> None],
     [file_path |-> "b.pdf", document_name |-> "report"]}

\* file_path.exists()
Exists(p) ==
    p # "missing.pdf"

\* Path.suffix: the last dot of the file name and what follows it
Suffix(p) ==
    CASE p = "notes.txt" -> ".txt"
      [] p = "scan.PDF" -> ".PDF"
      [] OTHER -> ".pdf"

\* str.lower() on the suffixes met
Lower(x) ==
    IF x = ".PDF" THEN ".pdf" ELSE x

\* file_path.suffix.lower() == '.pdf'
IsPdf(p) ==
    Lower(Suffix(p)) = ".pdf"

\* _create_text_chunks(text_content) of a non-blank text: 1..MaxChunks chunks,
\* consecutive chunks of different text
ChunkLists ==
    {[i \in 1..n |-> (i % 2) + 1] : n \in 1..MaxChunks}

NoFail == [at |-> 0, stage |-> "none"]

\* where the loop body of upload_pdf can raise: open/write of the chunk file,
\* embedding_model.encode, np.save of the embedding; and after the loop
\* faiss.write_index in _save_index
UploadFails(chunks) ==
    {NoFail, [at |-> 0, stage |-> "save_index"]} \cup
    [at : 1..Len(chunks), stage : {"write_chunk", "encode", "save_emb"}]

\* a variant of index.add that drops a vector the index already holds
IndexAddUnique(ix, v) ==
    IF \E r \in 1..Len(ix) : ix[r] = v THEN ix ELSE Append(ix, v)

\* rag_system.index.add(embedding.reshape(1, -1)): appends one row
IndexAdd(ix, v) ==
    Append(ix, v)

\* chunk_id = metadata["next_chunk_id"]; metadata["next_chunk_id"] += 1
TakeChunkId(md) ==
    [md EXCEPT !.next_chunk_id = @ + 1]

\* metadata["chunks"][str(chunk_id)] = {...}
ChunkEntry(cid, doc_id, i) ==
    [k |-> Str(cid), document_id |-> doc_id, chunk_index |-> i]

\* one iteration of the loop over enumerate(chunks); S is the store as the
\* iteration finds it, i the 0-based chunk_index, stage where it raises;
\* index.add raises when the vector has not the dimension of the index
ChunkStep(S, doc_id, i, chunk, stage) ==
    LET cid == S.md.next_chunk_id
        md1 == TakeChunkId(S.md)
        cf1 == DictSet(S.cf, [k |-> Str(cid), text |-> chunk])
        ix1 == IndexAdd(S.ix, Embed(chunk))
        ef1 == DictSet(S.ef, [k |-> Str(cid), vec |-> Embed(chunk)])
        md2 == [md1 EXCEPT !.chunks = DictSet(@, ChunkEntry(cid, doc_id, i))]
    IN  CASE stage = "write_chunk" ->
               [S EXCEPT !.md = md1, !.raised = TRUE]
          [] stage = "encode" ->
               [S EXCEPT !.md = md1, !.cf = cf1, !.raised = TRUE]
          [] DimMismatch(S.ix) ->
               [S EXCEPT !.md = md1, !.cf = cf1, !.raised = TRUE]
          [] stage = "save_emb" ->
               [S EXCEPT !.md = md1, !.cf = cf1, !.ix = ix1, !.raised = TRUE]
          [] OTHER ->
               [S EXCEPT !.md = md2, !.cf = cf1, !.ix = ix1, !.ef = ef1,
                         !.ids = Append(@, cid)]

RECURSIVE UploadLoop(_, _, _, _, _)
\* for i, chunk in enumerate(chunks): ...   (n is the 1-based position)
UploadLoop(S, doc_id, chunks, n, fail) ==
    IF n > Len(chunks) \/ S.raised
    THEN S
    ELSE UploadLoop(
             ChunkStep(S, doc_id, n - 1, chunks[n],
                       IF fail.at = n THEN fail.stage ELSE "none"),
             doc_id, chunks, n + 1, fail)

\* metadata["documents"][doc_id] = {...}
DocEntry(doc_id, doc_name, p, chunk_ids, chunks) ==
    [k |-> doc_id, name |-> doc_name, original_path |-> p,
     chunk_ids |-> chunk_ids, chunk_count |-> Len(chunks)]

UploadResult(doc_id, doc_name, chunks) ==
    [op |-> "upload", status |-> "success", document_id |-> doc_id,
     document_name |-> doc_name, chunks_created |-> Len(chunks)]

ErrorResult(o, msg) ==
    [op |-> o, status |-> "error", error |-> msg]

\* a variant of the early returns that saves the document file before it
\* looks at the extracted text
UploadRejectedSavesDocument(p, blank) ==
    /\ proc = "running"
    /\ UNCHANGED <<proc, chunker>>
    /\ ~Exists(p) \/ ~IsPdf(p) \/ blank
    /\ result' = IF ~Exists(p) THEN ErrorResult("upload", "File not found")
                 ELSE IF ~IsPdf(p) THEN ErrorResult("upload", "File must be a PDF")
                 ELSE ErrorResult("upload", "No text content found in PDF")
    /\ doc_files' = IF Exists(p) /\ IsPdf(p) /\ p \in Paths
                    THEN doc_files \cup {Md5(p)} ELSE doc_files
    /\ UNCHANGED <<metadata, index, metadata_file, index_file, chunk_files,
                   emb_files, faults, issued>>

\* the early returns of upload_pdf: nothing is written (blank: the extracted
\* text is empty or whitespace)
UploadRejected(p, blank) ==
    /\ proc = "running"
    /\ UNCHANGED <<proc, chunker>>
    /\ ~Exists(p) \/ ~IsPdf(p) \/ blank
    /\ result' = IF ~Exists(p) THEN ErrorResult("upload", "File not found")
                 ELSE IF ~IsPdf(p) THEN ErrorResult("upload", "File must be a PDF")
                 ELSE ErrorResult("upload", "No text content found in PDF")
    /\ UNCHANGED <<metadata, index, metadata_file, index_file, chunk_files,
                   emb_files, doc_files, faults, issued>>

\* upload_pdf(file_path, document_name) on a readable PDF whose text splits
\* into chunks; fail says where, if anywhere, the loop raises
Upload(p, document_name, chunks, fail) ==
    /\ proc = "running"
    /\ UNCHANGED <<proc, chunker>>
    /\ metadata.next_chunk_id + Len(chunks) <= MaxChunkId
    /\ (fail # NoFail \/ DimMismatch(index)) => faults < MaxFaults
    /\ \E S \in {UploadLoop([md |-> metadata, ix |-> index, cf |-> chunk_files,
                             ef |-> emb_files, ids |-> <<>>, raised |-> FALSE],
                            Md5(p), chunks, 1, fail)} :
       LET doc_id == Md5(p)
           doc_name == IF document_name = None THEN Stem(p) ELSE document_name
           md == [S.md EXCEPT !.documents =
                     DictSet(@, DocEntry(doc_id, doc_name, p, S.ids, chunks))]
           raised == S.raised \/ fail.stage = "save_index"
       IN  /\ faults' = IF raised THEN faults + 1 ELSE faults
           /\ issued' = issued \cup
                           (metadata.next_chunk_id..(S.md.next_chunk_id - 1))
           /\ doc_files' = doc_files \cup {doc_id}
           /\ chunk_files' = S.cf
           /\ emb_files' = S.ef
           /\ index' = S.ix
           /\ IF S.raised
              THEN /\ metadata' = S.md
                   /\ UNCHANGED <<metadata_file, index_file>>
                   /\ result' = ErrorResult("upload", "Failed to process PDF")
              ELSE /\ metadata' = md
                   /\ metadata_file' = <<JsonDump(md)>>
                   /\ IF fail.stage = "save_index"
                      THEN /\ UNCHANGED index_file
                           /\ result' = ErrorResult("upload", "Failed to process PDF")
                      ELSE /\ index_file' = <<WriteIndex(S.ix)>>
                           /\ result' = UploadResult(doc_id, doc_name, chunks)

\* --------------------------------------------------------- delete_document
\* where delete_document can raise: unlink of a chunk or embedding file that
\* exists (at = position in chunk_ids), unlink of the document file, np.load
\* of an embedding during the rebuild (at = position among the remaining
\* chunk keys), faiss.write_index
DeleteFails ==
    {NoFail, [at |-> 0, stage |-> "unlink_doc"], [at |-> 0, stage |-> "save_index"]} \cup
    [at : 1..MaxChunks, stage : {"unlink_chunk", "unlink_emb"}] \cup
    [at : 1..MaxChunkId, stage : {"load_emb"}]

\* a variant of the iteration that leaves the chunk file where it is
DeleteStepKeepsChunkFile(D, chunk_id, stage) ==
    LET key == Str(chunk_id)
        ef1 == DictDel(D.ef, key)
        md1 == [D.md EXCEPT !.chunks = DictDel(@, key)]
    IN  CASE stage = "unlink_emb" /\ HasKey(D.ef, key) ->
               [D EXCEPT !.raised = TRUE]
          [] OTHER ->
               [D EXCEPT !.ef = ef1, !.md = md1]

\* one iteration of the loop over chunk_ids
DeleteStep(D, chunk_id, stage) ==
    LET key == Str(chunk_id)
        cf1 == DictDel(D.cf, key)
        ef1 == DictDel(D.ef, key)
        md1 == [D.md EXCEPT !.chunks = DictDel(@, key)]
    IN  CASE stage = "unlink_chunk" /\ HasKey(D.cf, key) ->
               [D EXCEPT !.raised = TRUE]
          [] stage = "unlink_emb" /\ HasKey(D.ef, key) ->
               [D EXCEPT !.cf = cf1, !.raised = TRUE]
          [] OTHER ->
               [D EXCEPT !.cf = cf1, !.ef = ef1, !.md = md1]

RECURSIVE DeleteLoop(_, _, _, _)
\* for chunk_id in chunk_ids: ...
DeleteLoop(D, chunk_ids, n, fail) ==
    IF n > Len(chunk_ids) \/ D.raised
    THEN D
    ELSE DeleteLoop(
             DeleteStep(D, chunk_ids[n],
                        IF fail.at = n THEN fail.stage ELSE "none"),
             chunk_ids, n + 1, fail)

RECURSIVE RebuildLoop(_, _, _, _)
\* rag_system.index = faiss.IndexFlatIP(384)
\* for chunk_id in metadata["chunks"].keys(): add the saved embedding, if any
RebuildLoop(D, chunks, n, fail) ==
    IF n > Len(chunks) \/ D.raised
    THEN D
    ELSE LET key == chunks[n].k
         IN  IF ~HasKey(D.ef, key)
             THEN RebuildLoop(D, chunks, n + 1, fail)
             ELSE IF fail.stage = "load_emb" /\ fail.at = n
             THEN [D EXCEPT !.raised = TRUE]
             ELSE RebuildLoop([D EXCEPT !.ix = IndexAdd(@, DictGet(D.ef, key).vec)],
                              chunks, n + 1, fail)

\* a variant of delete_document that adds the saved embeddings to the index
\* it has, without replacing it by a new one
DeleteBodyKeepsRows(document_id, fail) ==
    LET doc_info == DictGet(metadata.documents, document_id)
        D0 == [md |-> metadata, ix |-> index, cf |-> chunk_files,
               ef |-> emb_files, df |-> doc_files, raised |-> FALSE]
        D1 == DeleteLoop(D0, doc_info.chunk_ids, 1, fail)
        D2 == IF D1.raised THEN D1
              ELSE IF fail.stage = "unlink_doc" /\ document_id \in D1.df
              THEN [D1 EXCEPT !.raised = TRUE]
              ELSE [D1 EXCEPT !.df = @ \ {document_id},
                              !.md.documents = DictDel(@, document_id)]
    IN  IF D2.raised THEN D2
        ELSE RebuildLoop(D2, D2.md.chunks, 1, fail)

\* delete_document(document_id) from the existence check to the rebuilt index
DeleteBody(document_id, fail) ==
    LET doc_info == DictGet(metadata.documents, document_id)
        D0 == [md |-> metadata, ix |-> index, cf |-> chunk_files,
               ef |-> emb_files, df |-> doc_files, raised |-> FALSE]
        D1 == DeleteLoop(D0, doc_info.chunk_ids, 1, fail)
        D2 == IF D1.raised THEN D1
              ELSE IF fail.stage = "unlink_doc" /\ document_id \in D1.df
              THEN [D1 EXCEPT !.raised = TRUE]
              ELSE [D1 EXCEPT !.df = @ \ {document_id},
                              !.md.documents = DictDel(@, document_id)]
    IN  IF D2.raised THEN D2
        ELSE RebuildLoop([D2 EXCEPT !.ix = <<>>], D2.md.chunks, 1, fail)

DeleteResult(doc_info) ==
    [op |-> "delete", status |-> "success", name |-> doc_info.name]

\* {"error": f"Document not found: {document_id}"}
NotFoundResult(document_id) ==
    [op |-> "delete", status |-> "error", error |-> "Document not found",
     document_id |-> document_id]

\* a variant of the not-found return that first removes a leftover document file
DeleteUnknownUnlinks(document_id) ==
    /\ proc = "running"
    /\ UNCHANGED <<proc, chunker>>
    /\ ~HasKey(metadata.documents, document_id)
    /\ result' = NotFoundResult(document_id)
    /\ doc_files' = doc_files \ {document_id}
    /\ UNCHANGED <<metadata, index, metadata_file, index_file, chunk_files,
                   emb_files, faults, issued>>

DeleteUnknown(document_id) ==
    /\ proc = "running"
    /\ UNCHANGED <<proc, chunker>>
    /\ ~HasKey(metadata.documents, document_id)
    /\ result' = NotFoundResult(document_id)
    /\ UNCHANGED <<metadata, index, metadata_file, index_file, chunk_files,
                   emb_files, doc_files, faults, issued>>

Delete(document_id, fail) ==
    /\ proc = "running"
    /\ UNCHANGED <<proc, chunker>>
    /\ HasKey(metadata.documents, document_id)
    /\ \E D \in {DeleteBody(document_id, fail)} :
       LET raised == D.raised \/ fail.stage = "save_index"
       IN  /\ raised => faults < MaxFaults
           /\ faults' = IF raised THEN faults + 1 ELSE faults
           /\ UNCHANGED issued
           /\ metadata' = D.md
           /\ index' = D.ix
           /\ chunk_files' = D.cf
           /\ emb_files' = D.ef
           /\ doc_files' = D.df
           /\ IF D.raised
              THEN /\ UNCHANGED <<metadata_file, index_file>>
                   /\ result' = ErrorResult("delete", "Failed to delete document")
              ELSE /\ metadata_file' = <<JsonDump(D.md)>>
                   /\ IF fail.stage = "save_index"
                      THEN /\ UNCHANGED index_file
                           /\ result' = ErrorResult("delete", "Failed to delete document")
                      ELSE /\ index_file' = <<WriteIndex(D.ix)>>
                           /\ result' = DeleteResult(
                                  DictGet(metadata.documents, document_id))

\* ------------------------------------------------- crash between the saves
\* upload_pdf runs through _save_metadata (line 141), the process dies before
\* _save_index (line 142), and a new process loads the store
UploadCrash(p, document_name, chunks) ==
    /\ proc = "running"
    /\ UNCHANGED <<proc, chunker>>
    /\ metadata.next_chunk_id + Len(chunks) <= MaxChunkId
    /\ faults < MaxFaults
    /\ \E S \in {UploadLoop([md |-> metadata, ix |-> index, cf |-> chunk_files,
                             ef |-> emb_files, ids |-> <<>>, raised |-> FALSE],
                            Md5(p), chunks, 1, NoFail)} :
       LET doc_id == Md5(p)
           doc_name == IF document_name = None THEN Stem(p) ELSE document_name
           md == [S.md EXCEPT !.documents =
                     DictSet(@, DocEntry(doc_id, doc_name, p, S.ids, chunks))]
       IN  /\ ~S.raised
           /\ faults' = faults + 1
           /\ issued' = issued \cup
                           (metadata.next_chunk_id..(S.md.next_chunk_id - 1))
           /\ doc_files' = doc_files \cup {doc_id}
           /\ chunk_files' = S.cf
           /\ emb_files' = S.ef
           /\ metadata_file' = <<JsonDump(md)>>
           /\ UNCHANGED index_file
           /\ metadata' = LoadMetadata(<<JsonDump(md)>>)
           /\ index' = LoadOrCreateIndex(index_file)
           /\ result' = [op |-> "crash", status |-> "upload"]

\* delete_document runs through _save_metadata (line 265), the process dies
\* before _save_index (line 266), and a new process loads the store
DeleteCrash(document_id) ==
    /\ proc = "running"
    /\ UNCHANGED <<proc, chunker>>
    /\ HasKey(metadata.documents, document_id)
    /\ faults < MaxFaults
    /\ \E D \in {DeleteBody(document_id, NoFail)} :
           /\ faults' = faults + 1
           /\ UNCHANGED issued
           /\ chunk_files' = D.cf
           /\ emb_files' = D.ef
           /\ doc_files' = D.df
           /\ metadata_file' = <<JsonDump(D.md)>>
           /\ UNCHANGED index_file
           /\ metadata' = LoadMetadata(<<JsonDump(D.md)>>)
           /\ index' = LoadOrCreateIndex(index_file)
           /\ result' = [op |-> "crash", status |-> "delete"]

\* -------------------------------------------------------- search_documents
Min(a, b) ==
    IF a <= b THEN a ELSE b

\* score of row r (0-based) of the index against the query vector
RowScore(ix, qv, r) ==
    Dot(qv, ix[r + 1])

RECURSIVE TopRows(_, _, _, _)
\* the rankings of the k best rows among `rows`, best first: every way of
\* taking a row of the highest score left, k times
TopRows(ix, qv, k, rows) ==
    IF k = 0 \/ rows = {}
    THEN {<<>>}
    ELSE LET best == {r \in rows : \A o \in rows :
                         RowScore(ix, qv, r) >= RowScore(ix, qv, o)}
         IN  UNION {{<<r>> \o t : t \in TopRows(ix, qv, k - 1, rows \ {r})} :
                    r \in best}

\* rag_system.index.search(query, k): the k best rows by inner product, best
\* first; which of several rows of equal score comes first is not specified
IndexSearch(ix, qv, k) ==
    TopRows(ix, qv, k, 0..(Len(ix) - 1))

\* one entry of results for the row idx, joined through the metadata with
\* dict.get defaults
SearchHit(md, cf, score, idx) ==
    LET key == Str(idx)
        has == HasKey(md.chunks, key)
        doc_id == IF has THEN DictGet(md.chunks, key).document_id ELSE None
        has_doc == has /\ HasKey(md.documents, doc_id)
    IN  [chunk_id |-> idx,
         score |-> score,
         text |-> DictGet(cf, key).text,
         document_name |-> IF has_doc THEN DictGet(md.documents, doc_id).name
                           ELSE "Unknown",
         document_id |-> doc_id,
         chunk_index |-> IF has THEN DictGet(md.chunks, key).chunk_index ELSE None]

RECURSIVE SearchResults(_, _, _, _, _, _)
\* for score, idx in zip(scores[0], indices[0]): rows without a chunk file
\* are skipped
SearchResults(md, cf, ix, qv, hits, n) ==
    IF n > Len(hits)
    THEN <<>>
    ELSE LET rest == SearchResults(md, cf, ix, qv, hits, n + 1)
         IN  IF HasKey(cf, Str(hits[n]))
             THEN <<SearchHit(md, cf, RowScore(ix, qv, hits[n]), hits[n])>> \o rest
             ELSE rest

SearchResult(q, results) ==
    [op |-> "search", status |-> "success", query |-> q, results |-> results,
     total_results |-> Len(results)]

\* rag_system.index.ntotal == 0
IndexEmpty(ix) ==
    Len(ix) = 0

\* what search_documents(q, top_k) can return when nothing raises: one result
\* per order in which the index may rank rows of equal score
SearchOutcomes(md, ix, cf, q, top_k) ==
    IF IndexEmpty(ix)
    THEN {ErrorResult("search", "No documents in the system")}
    ELSE {SearchResult(q, SearchResults(md, cf, ix, Embed(q), hits, 1)) :
             hits \in IndexSearch(ix, Embed(q), Min(top_k, Len(ix)))}

\* a variant of search_documents that writes the index file after the query
SearchSavesIndex(q, top_k, raises) ==
    /\ proc = "running"
    /\ UNCHANGED <<proc, chunker>>
    /\ result' \in IF (raises \/ DimMismatch(index)) /\ ~IndexEmpty(index)
                   THEN {ErrorResult("search", "Search failed")}
                   ELSE SearchOutcomes(metadata, index, chunk_files, q, top_k)
    /\ index_file' = <<WriteIndex(index)>>
    /\ UNCHANGED <<metadata, index, metadata_file, chunk_files,
                   emb_files, doc_files, faults, issued>>

\* search_documents(q, top_k); raises: encode, index.search or the read of a
\* chunk file raises; index.search raises when the query vector has not the
\* dimension of the index
Search(q, top_k, raises) ==
    /\ proc = "running"
    /\ UNCHANGED <<proc, chunker>>
    /\ result' \in IF (raises \/ DimMismatch(index)) /\ ~IndexEmpty(index)
                   THEN {ErrorResult("search", "Search failed")}
                   ELSE SearchOutcomes(metadata, index, chunk_files, q, top_k)
    /\ UNCHANGED <<metadata, index, metadata_file, index_file, chunk_files,
                   emb_files, doc_files, faults, issued>>

\* ---------------------------------------------- list_documents, get_rag_stats
ListEntry(doc_info) ==
    [document_id |-> doc_info.k, name |-> doc_info.name,
     chunk_count |-> doc_info.chunk_count]

ListResult(md) ==
    [op |-> "list", status |-> "success",
     documents |-> [i \in 1..Len(md.documents) |-> ListEntry(md.documents[i])],
     total_documents |-> Len(md.documents)]

List ==
    /\ proc = "running"
    /\ UNCHANGED <<proc, chunker>>
    /\ result' = ListResult(metadata)
    /\ UNCHANGED <<metadata, index, metadata_file, index_file, chunk_files,
                   emb_files, doc_files, faults, issued>>

\* total_chunks = len(rag_system.metadata["chunks"])
TotalChunks(md) ==
    Len(md.chunks)

Stats ==
    /\ proc = "running"
    /\ UNCHANGED <<proc, chunker>>
    /\ result' = [op |-> "stats", status |-> "success",
                  total_documents |-> Len(metadata.documents),
                  total_chunks |-> TotalChunks(metadata)]
    /\ UNCHANGED <<metadata, index, metadata_file, index_file, chunk_files,
                   emb_files, doc_files, faults, issued>>

\* ---------------------------------------------------- _create_text_chunks
\* a text is a sequence of characters: a letter, the two characters the
\* function looks for, of which the newline is whitespace too
Chars == {"a", ".", "\n"}

Whitespace == {" ", "\n"}

ChunkerTexts ==
    UNION {[1..n -> Chars] : n \in 0..MaxTextLen}

\* a slice bound i of a sequence of length n: negative bounds count from the
\* end, and bounds are clipped to 0..n
SliceBound(i, n) ==
    IF i < 0
    THEN IF i + n < 0 THEN 0 ELSE i + n
    ELSE IF i > n THEN n ELSE i

\* t[a:b], positions counted from 0
Slice(t, a, b) ==
    LET lo == SliceBound(a, Len(t))
        hi == SliceBound(b, Len(t))
    IN  IF lo >= hi THEN <<>> ELSE SubSeq(t, lo + 1, hi)

\* t.rfind(ch): the highest position of ch in t, counted from 0, or -1
RFind(t, ch) ==
    IF \E i \in 1..Len(t) : t[i] = ch
    THEN (CHOOSE i \in 1..Len(t) :
             t[i] = ch /\ \A j \in (i + 1)..Len(t) : t[j] # ch) - 1
    ELSE -1

Max(a, b) ==
    IF a >= b THEN a ELSE b

RECURSIVE LStrip(_)
LStrip(t) ==
    IF t # <<>> /\ Head(t) \in Whitespace THEN LStrip(Tail(t)) ELSE t

RECURSIVE RStrip(_)
RStrip(t) ==
    IF t # <<>> /\ t[Len(t)] \in Whitespace
    THEN RStrip(SubSeq(t, 1, Len(t) - 1))
    ELSE t

\* t.strip()
Strip(t) ==
    LStrip(RStrip(t))

\* a variant of the loop body that cuts the chunk at any '.' or newline
ChunkWindowCutsAnywhere(text, chunk_size, start) ==
    LET end == start + chunk_size
        chunk == Slice(text, start, end)
        last_period == RFind(chunk, ".")
        last_newline == RFind(chunk, "\n")
        break_point == Max(last_period, last_newline)
    IN  IF end < Len(text) /\ break_point >= 0
        THEN [chunk |-> Slice(text, start, break_point + 1), end |-> break_point + 1]
        ELSE [chunk |-> chunk, end |-> end]

\* a variant of the loop body whose uncut chunk stops one character short of
\* the end of its window
ChunkWindowStopsShort(text, chunk_size, start) ==
    LET end == start + chunk_size
        chunk == Slice(text, start, end)
        last_period == RFind(chunk, ".")
        last_newline == RFind(chunk, "\n")
        break_point == Max(last_period, last_newline)
    IN  IF end < Len(text) /\ break_point > start + chunk_size \div 2
        THEN [chunk |-> Slice(text, start, break_point + 1), end |-> break_point + 1]
        ELSE [chunk |-> Slice(text, start, Max(start, end - 1)), end |-> end]

\* the body of the loop up to the append: the chunk taken at start and the
\* end of its window; break_point is a position in chunk
ChunkWindow(text, chunk_size, start) ==
    LET end == start + chunk_size
        chunk == Slice(text, start, end)
        last_period == RFind(chunk, ".")
        last_newline == RFind(chunk, "\n")
        break_point == Max(last_period, last_newline)
    IN  IF end < Len(text) /\ break_point > start + chunk_size \div 2
        THEN [chunk |-> Slice(text, start, break_point + 1), end |-> break_point + 1]
        ELSE [chunk |-> chunk, end |-> end]

\* the iterations followed of one call: a call whose start advances on every
\* iteration makes at most len(text) of them
MaxIterations ==
    MaxTextLen + 1

\* a variant of the iteration that starts the next window where this one ends
IterateWithoutOverlap ==
    /\ chunker.pc = "while"
    /\ chunker.start < Len(chunker.text)
    /\ Len(chunker.chunks) < MaxIterations
    /\ LET w == ChunkWindow(chunker.text, chunker.chunk_size, chunker.start)
           start == w.end
       IN  chunker' = [pc |-> IF start >= Len(chunker.text) THEN "return" ELSE "while",
                       text |-> chunker.text,
                       chunk_size |-> chunker.chunk_size,
                       overlap |-> chunker.overlap,
                       start |-> start,
                       end |-> w.end,
                       chunks |-> Append(chunker.chunks, Strip(w.chunk)),
                       windows |-> Append(chunker.windows, <<chunker.start, w.end>>)]
    /\ UNCHANGED <<metadata, index, metadata_file, index_file, chunk_files,
                   emb_files, doc_files, result, faults, issued, proc>>

\* one iteration of while start < len(text), from the test to the break test
Iterate ==
    /\ chunker.pc = "while"
    /\ chunker.start < Len(chunker.text)
    /\ Len(chunker.chunks) < MaxIterations
    /\ LET w == ChunkWindow(chunker.text, chunker.chunk_size, chunker.start)
           start == w.end - chunker.overlap
       IN  chunker' = [pc |-> IF start >= Len(chunker.text) THEN "return" ELSE "while",
                       text |-> chunker.text,
                       chunk_size |-> chunker.chunk_size,
                       overlap |-> chunker.overlap,
                       start |-> start,
                       end |-> w.end,
                       chunks |-> Append(chunker.chunks, Strip(w.chunk)),
                       windows |-> Append(chunker.windows, <<chunker.start, w.end>>)]
    /\ UNCHANGED <<metadata, index, metadata_file, index_file, chunk_files,
                   emb_files, doc_files, result, faults, issued, proc>>

\* the test of the while fails
WhileExit ==
    /\ chunker.pc = "while"
    /\ ~(chunker.start < Len(chunker.text))
    /\ chunker' = [chunker EXCEPT !.pc = "return"]
    /\ UNCHANGED <<metadata, index, metadata_file, index_file, chunk_files,
                   emb_files, doc_files, result, faults, issued, proc>>

\* a variant of the return that also leaves out the chunks of one character
ReturnDropsSingle ==
    /\ chunker.pc = "return"
    /\ chunker' = [pc |-> "done",
                   text |-> chunker.text,
                   chunk_size |-> chunker.chunk_size,
                   overlap |-> chunker.overlap,
                   chunks |-> chunker.chunks,
                   windows |-> chunker.windows,
                   returned |-> SelectSeq(chunker.chunks, LAMBDA c : Len(Strip(c)) > 1)]
    /\ UNCHANGED <<metadata, index, metadata_file, index_file, chunk_files,
                   emb_files, doc_files, result, faults, issued, proc>>

\* return [chunk for chunk in chunks if chunk.strip()]
Return ==
    /\ chunker.pc = "return"
    /\ chunker' = [pc |-> "done",
                   text |-> chunker.text,
                   chunk_size |-> chunker.chunk_size,
                   overlap |-> chunker.overlap,
                   chunks |-> chunker.chunks,
                   windows |-> chunker.windows,
                   returned |-> SelectSeq(chunker.chunks, LAMBDA c : Strip(c) # <<>>)]
    /\ UNCHANGED <<metadata, index, metadata_file, index_file, chunk_files,
                   emb_files, doc_files, result, faults, issued, proc>>

\* ---------------------------------------------------------- specifications
\* every tool call, with the exceptions the handlers catch, and restarts
Next ==
    \/ \E p \in AllPaths, blank \in BOOLEAN : UploadRejected(p, blank)
    \/ \E a \in UploadArgs, chunks \in ChunkLists :
          \E fail \in UploadFails(chunks) :
             Upload(a.file_path, a.document_name, chunks, fail)
    \/ \E d \in DocIds : DeleteUnknown(d)
    \/ \E d \in DocIds, fail \in DeleteFails : Delete(d, fail)
    \/ \E q \in Texts, k \in TopKs, raises \in BOOLEAN : Search(q, k, raises)
    \/ List
    \/ Stats
    \/ Restart

Spec == Init /\ [][Next]_vars

\* the same tool calls in runs where nothing raises and the process lives on
NextOk ==
    \/ \E p \in AllPaths, blank \in BOOLEAN : UploadRejected(p, blank)
    \/ \E a \in UploadArgs, chunks \in ChunkLists :
          Upload(a.file_path, a.document_name, chunks, NoFail)
    \/ \E d \in DocIds : DeleteUnknown(d)
    \/ \E d \in DocIds : Delete(d, NoFail)
    \/ \E q \in Texts, k \in TopKs : Search(q, k, FALSE)
    \/ List
    \/ Stats

SpecOk == Init /\ [][NextOk]_vars

\* the calls that write the store, with their failures, and the restart:
\* search_documents, list_documents, get_rag_stats and the rejected calls
\* leave every store variable unchanged, so the store states reached are
\* those of Spec
NextStore ==
    \/ \E a \in UploadArgs, chunks \in ChunkLists :
          \E fail \in UploadFails(chunks) :
             Upload(a.file_path, a.document_name, chunks, fail)
    \/ \E d \in DocIds, fail \in DeleteFails : Delete(d, fail)
    \/ Restart

SpecStore == Init /\ [][NextStore]_vars

\* the writing calls and the restart, together with delete_document of an id
\* the store does not list
NextDelete ==
    \/ NextStore
    \/ \E d \in DocIds : DeleteUnknown(d)

SpecDelete == Init /\ [][NextDelete]_vars

\* runs where no call raises, with restarts of the process
NextRestart ==
    \/ NextOk
    \/ Restart

SpecRestart == Init /\ [][NextRestart]_vars

\* upload_pdf and delete_document where nothing raises, crashes of the
\* process between their two saves, and restarts
NextCrash ==
    \/ \E a \in UploadArgs, chunks \in ChunkLists :
          Upload(a.file_path, a.document_name, chunks, NoFail)
    \/ \E d \in DocIds : Delete(d, NoFail)
    \/ \E a \in UploadArgs, chunks \in ChunkLists :
          UploadCrash(a.file_path, a.document_name, chunks)
    \/ \E d \in DocIds : DeleteCrash(d)
    \/ Restart

SpecCrash == Init /\ [][NextCrash]_vars

\* the writing calls and the restart, together with the upload_pdf calls that
\* return early
NextUpload ==
    \/ NextStore
    \/ \E p \in AllPaths, blank \in BOOLEAN : UploadRejected(p, blank)

SpecUpload == Init /\ [][NextUpload]_vars

\* the writing calls and the restart, together with list_documents
NextList ==
    \/ NextStore
    \/ List

SpecList == Init /\ [][NextList]_vars

\* runs where no writing call raises, with restarts, and with
\* search_documents calls that raise
NextRead ==
    \/ NextRestart
    \/ \E q \in Texts, k \in TopKs : Search(q, k, TRUE)

SpecRead == Init /\ [][NextRead]_vars

\* a faiss_index.bin written with an embedding model of another dimension
ForeignIndex ==
    [d |-> EmbedDim + 1, ntotal |-> 1, xb |-> [i \in 1..(EmbedDim + 1) |-> 1]]

\* the storage directory a first process finds: no metadata.json or one that
\* is not JSON, no faiss_index.bin or one of another dimension
InitStartup ==
    /\ metadata_file \in {<<>>, <<Corrupt>>}
    /\ index_file \in {<<>>, <<ForeignIndex>>}
    /\ proc = "down"
    /\ metadata = NoRagSystem
    /\ index = <<>>
    /\ chunk_files = <<>>
    /\ emb_files = <<>>
    /\ doc_files = {}
    /\ result = [op |-> "init", status |-> "none"]
    /\ faults = 0
    /\ issued = {}
    /\ chunker = NoCall

\* the server is started over such a directory, serves calls in which
\* nothing but a dimension check raises, and is started again
SpecStartup == InitStartup /\ [][NextRestart]_vars

\* _create_text_chunks(text, chunk_size, overlap) is entered in a server
\* with a new store
InitChunker ==
    /\ metadata = EmptyMetadata
    /\ index = <<>>
    /\ metadata_file = <<>>
    /\ index_file = <<>>
    /\ chunk_files = <<>>
    /\ emb_files = <<>>
    /\ doc_files = {}
    /\ result = [op |-> "init", status |-> "none"]
    /\ faults = 0
    /\ issued = {}
    /\ proc = "running"
    /\ chunker \in {[pc |-> "while", text |-> t, chunk_size |-> c, overlap |-> o,
                      start |-> 0, chunks |-> <<>>, windows |-> <<>>] :
                        t \in ChunkerTexts, c \in 1..MaxChunkSize, o \in 0..MaxChunkSize}

NextChunker ==
    \/ Iterate
    \/ WhileExit
    \/ Return

SpecChunker == InitChunker /\ [][NextChunker]_vars

\* the calls shaped like the default one (chunk_size 1000, overlap 200):
\* 0 <= overlap <= chunk_size // 2, on the texts of fewer than MaxTextLen
\* characters
InitChunkerDefault ==
    /\ metadata = EmptyMetadata
    /\ index = <<>>
    /\ metadata_file = <<>>
    /\ index_file = <<>>
    /\ chunk_files = <<>>
    /\ emb_files = <<>>
    /\ doc_files = {}
    /\ result = [op |-> "init", status |-> "none"]
    /\ faults = 0
    /\ issued = {}
    /\ proc = "running"
    /\ \E c \in 1..MaxChunkSize :
          \E o \in 0..(c \div 2), n \in 0..(MaxTextLen - 1) :
             \E t \in [1..n -> Chars] :
                chunker = [pc |-> "while", text |-> t, chunk_size |-> c,
                           overlap |-> o, start |-> 0, chunks |-> <<>>,
                           windows |-> <<>>]

SpecChunkerDefault == InitChunkerDefault /\ [][NextChunker]_vars

\* the calls on a text shorter than chunk_size, with any overlap
InitChunkerShort ==
    /\ metadata = EmptyMetadata
    /\ index = <<>>
    /\ metadata_file = <<>>
    /\ index_file = <<>>
    /\ chunk_files = <<>>
    /\ emb_files = <<>>
    /\ doc_files = {}
    /\ result = [op |-> "init", status |-> "none"]
    /\ faults = 0
    /\ issued = {}
    /\ proc = "running"
    /\ \E c \in 1..MaxChunkSize :
          \E o \in 0..MaxChunkSize, n \in 0..(c - 1) :
             \E t \in [1..n -> Chars] :
                chunker = [pc |-> "while", text |-> t, chunk_size |-> c,
                           overlap |-> o, start |-> 0, chunks |-> <<>>,
                           windows |-> <<>>]

SpecChunkerShort == InitChunkerShort /\ [][NextChunker]_vars

\* the default call (chunk_size 1000, overlap 200) on a text of 2500
\* characters, in proportion
ScaledChunkSize ==
    10 * Scale

ScaledOverlap ==
    ScaledChunkSize \div 5

ScaledTextLen ==
    (5 * ScaledChunkSize) \div 2

\* the texts of ScaledTextLen characters that are letters throughout, or
\* newlines throughout, but for up to two characters at any two positions
InitChunkerScaled ==
    /\ metadata = EmptyMetadata
    /\ index = <<>>
    /\ metadata_file = <<>>
    /\ index_file = <<>>
    /\ chunk_files = <<>>
    /\ emb_files = <<>>
    /\ doc_files = {}
    /\ result = [op |-> "init", status |-> "none"]
    /\ faults = 0
    /\ issued = {}
    /\ proc = "running"
    /\ \E fill \in {"a", "\n"}, p1, p2 \in 1..ScaledTextLen, m1, m2 \in Chars :
          chunker = [pc |-> "while",
                     text |-> [p \in 1..ScaledTextLen |->
                                 IF p = p1 THEN m1 ELSE IF p = p2 THEN m2 ELSE fill],
                     chunk_size |-> ScaledChunkSize,
                     overlap |-> ScaledOverlap,
                     start |-> 0, chunks |-> <<>>, windows |-> <<>>]

\* on a text that is not empty the loop is left by its break
NextChunkerScaled ==
    \/ Iterate
    \/ Return

SpecChunkerScaled == InitChunkerScaled /\ [][NextChunkerScaled]_vars

\* the calls with 0 <= overlap <= chunk_size // 2: the small ones and the
\* default one in proportion
InitChunkerHalf ==
    InitChunkerDefault \/ InitChunkerScaled

SpecChunkerHalf == InitChunkerHalf /\ [][NextChunker]_vars

\* ----------------------------------------------------------------- claims
\* int(key): the chunk id a numeral names
ChunkNum(key) ==
    CHOOSE c \in 0..MaxChunkId : Str(c) = key

\* row c of ix exists and holds the embedding saved for chunk c
RowHoldsChunk(ix, ef, key) ==
    /\ ChunkNum(key) < Len(ix)
    /\ HasKey(ef, key)
    /\ ix[ChunkNum(key) + 1] = DictGet(ef, key).vec

UploadOk(r) ==
    r.op = "upload" /\ r.status = "success"

DeleteOk(r) ==
    r.op = "delete" /\ r.status = "success"

SearchOk(r) ==
    r.op = "search" /\ r.status = "success"

\* C1: after any completed sequence of upload_pdf and delete_document calls,
\* for every chunk id c in metadata["chunks"] the index row at position c is
\* the embedding of chunk c.
C1_RowIsChunkId ==
    \A key \in Keys(metadata.chunks) : RowHoldsChunk(index, emb_files, key)

\* C2: after every completed tool call the index row count equals the number
\* of entries of metadata["chunks"].
C2_NtotalIsChunkCount ==
    Len(index) = Len(metadata.chunks)

\* C3: every result of search_documents names a live chunk, carries that
\* chunk's text, document_id, chunk_index and document_name, and its score is
\* the inner product of the query with that chunk's own embedding.
C3_ResultIsOwnChunk ==
    SearchOk(result) =>
        \A n \in 1..Len(result.results) :
            LET r == result.results[n]
                key == Str(r.chunk_id)
            IN  /\ HasKey(metadata.chunks, key)
                /\ HasKey(chunk_files, key)
                /\ HasKey(emb_files, key)
                /\ r.text = DictGet(chunk_files, key).text
                /\ r.document_id = DictGet(metadata.chunks, key).document_id
                /\ r.chunk_index = DictGet(metadata.chunks, key).chunk_index
                /\ HasKey(metadata.documents, r.document_id)
                /\ r.document_name = DictGet(metadata.documents, r.document_id).name
                /\ r.score = Dot(Embed(result.query), DictGet(emb_files, key).vec)

\* C4: when delete_document has succeeded, every surviving chunk's vector
\* sits at the row equal to its original chunk id.
C4_DeleteKeepsRowOfSurvivors ==
    DeleteOk(result) =>
        \A key \in Keys(metadata.chunks) : RowHoldsChunk(index, emb_files, key)

\* the document a successful delete_document step removed
Deleted(d) ==
    /\ DeleteOk(result')
    /\ HasKey(metadata.documents, d)
    /\ ~HasKey(metadata'.documents, d)

\* C5: after delete_document(d) succeeds no entry of metadata["chunks"] has
\* document_id d, and every index row left is the vector of a chunk of
\* another document.
C5_DeleteRemovesAllChunksOfDoc ==
    [][\A d \in DocIds : Deleted(d) =>
          /\ \A i \in 1..Len(metadata'.chunks) : metadata'.chunks[i].document_id # d
          /\ \A r \in 1..Len(index') :
                \E i \in 1..Len(metadata.chunks) :
                   /\ metadata.chunks[i].document_id # d
                   /\ HasKey(emb_files, metadata.chunks[i].k)
                   /\ index'[r] = DictGet(emb_files, metadata.chunks[i].k).vec]_vars

\* the chunk keys a document record lists
ListedKeys(doc_info) ==
    {Str(doc_info.chunk_ids[i]) : i \in 1..Len(doc_info.chunk_ids)}

\* the chunk keys whose entry points back at document d
OwnedKeys(d) ==
    {metadata.chunks[i].k : i \in {j \in 1..Len(metadata.chunks) :
                                      metadata.chunks[j].document_id = d}}

\* C6: for every document d the chunk entries with document_id d are exactly
\* d.chunk_ids; no chunk id is in two documents' chunk_ids and no chunk entry
\* is an orphan.
C6_ChunkIdsPartitionChunks ==
    /\ \A i \in 1..Len(metadata.documents) :
          OwnedKeys(metadata.documents[i].k) = ListedKeys(metadata.documents[i])
    /\ \A i, j \in 1..Len(metadata.documents) : i # j =>
          ListedKeys(metadata.documents[i]) \cap ListedKeys(metadata.documents[j]) = {}
    /\ \A i \in 1..Len(metadata.chunks) :
          /\ HasKey(metadata.documents, metadata.chunks[i].document_id)
          /\ metadata.chunks[i].k \in
                ListedKeys(DictGet(metadata.documents, metadata.chunks[i].document_id))

\* C7: next_chunk_id never decreases and no chunk id is handed out twice over
\* the lifetime of the store, across successful and failed ingests, deletes
\* and restarts.
C7_ChunkIdsNeverReused ==
    [][/\ metadata'.next_chunk_id >= metadata.next_chunk_id
       /\ \A c \in metadata.next_chunk_id..(metadata'.next_chunk_id - 1) :
             c \notin issued]_vars

\* C8: for every upload_pdf call that returns success, chunks_created equals
\* the length of the recorded chunk_ids, the recorded chunk_count, the number
\* of index rows the call added and the number of chunk entries it added.
C8_ChunksCreatedIsWhatWasStored ==
    [][UploadOk(result') =>
          LET doc_info == DictGet(metadata'.documents, result'.document_id)
              n == result'.chunks_created
          IN  /\ Len(doc_info.chunk_ids) = n
              /\ doc_info.chunk_count = n
              /\ Len(index') = Len(index) + n
              /\ Len(metadata'.chunks) = Len(metadata.chunks) + n
              /\ \A key \in ListedKeys(doc_info) :
                    ~HasKey(metadata.chunks, key) /\ HasKey(metadata'.chunks, key)]_vars

\* C8 witness: a two-chunk upload has succeeded in a store that already held
\* a document, after an earlier call had raised
C8_Witness ==
    /\ UploadOk(result)
    /\ result.chunks_created = 2
    /\ Len(metadata.documents) = 2
    /\ faults = 1

\* C9: if upload_pdf fails inside its loop over the chunks, either the store
\* (documents, chunks, next_chunk_id, index rows) is what it was before the
\* call, or the error reports how many chunks succeeded.
C9_FailedIngestRollsBackOrReports ==
    [][(/\ result'.op = "upload"
        /\ result'.status = "error"
        /\ result'.error = "Failed to process PDF"
        /\ metadata_file' = metadata_file) =>
          \/ metadata' = metadata /\ index' = index
          \/ "chunks_succeeded" \in DOMAIN result']_vars

\* C10: when delete_document(d) succeeds, total_chunks of get_rag_stats drops
\* by d's recorded chunk_count and total_documents by one.
C10_DeleteDropsChunkCount ==
    [][\A d \in DocIds : Deleted(d) =>
          /\ Len(metadata'.chunks) =
                Len(metadata.chunks) - DictGet(metadata.documents, d).chunk_count
          /\ Len(metadata'.documents) = Len(metadata.documents) - 1]_vars

\* the records of the documents other than d, in dictionary order
OtherDocs(md, d) ==
    SelectSeq(md.documents, LAMBDA r : r.k # d)

\* the chunk keys the record of d lists (none when d has no record)
ListedKeysOf(md, d) ==
    IF HasKey(md.documents, d) THEN ListedKeys(DictGet(md.documents, d)) ELSE {}

\* the chunk entries whose key is not in keys, in dictionary order
UnlistedChunks(md, keys) ==
    SelectSeq(md.chunks, LAMBDA r : r.k \notin keys)

\* the store outside the result of the call
Store ==
    <<metadata, index, metadata_file, index_file, chunk_files, emb_files, doc_files>>

\* C11: every delete_document(d) call, whether it succeeds or raises, leaves
\* the record of every other document, the chunk entry of every chunk that
\* d.chunk_ids does not list, and next_chunk_id as they were.
C11_DeleteLeavesOthersAlone ==
    [][result'.op = "delete" =>
          \E d \in DocIds :
             /\ DeleteOk(result') => Deleted(d)
             /\ OtherDocs(metadata', d) = OtherDocs(metadata, d)
             /\ UnlistedChunks(metadata', ListedKeysOf(metadata, d)) =
                   UnlistedChunks(metadata, ListedKeysOf(metadata, d))
             /\ metadata'.next_chunk_id = metadata.next_chunk_id]_vars

\* C11 witness: a delete has succeeded and another document with its chunks
\* is still there, after an earlier call had raised
C11_Witness ==
    /\ DeleteOk(result)
    /\ Len(metadata.documents) = 1
    /\ Len(metadata.chunks) >= 1
    /\ faults = 1

\* C12: when delete_document returns its error after the existence check,
\* the metadata, the index and every persisted artifact are what they were
\* before the call, and every document record still has all the chunk
\* entries it lists.
C12_DeleteIsAtomicUnderFailure ==
    [][(/\ result'.op = "delete"
        /\ result'.status = "error"
        /\ result'.error = "Failed to delete document") =>
          /\ Store' = Store
          /\ \A i \in 1..Len(metadata'.documents) :
                ListedKeys(metadata'.documents[i]) \subseteq Keys(metadata'.chunks)]_vars

\* C13: delete_document returns the not-found error only for an id that
\* metadata["documents"] does not hold, and that call changes nothing:
\* metadata (next_chunk_id included), index and files stay as they were.
C13_DeleteUnknownChangesNothing ==
    [][(/\ result'.op = "delete"
        /\ result'.status = "error"
        /\ result'.error = "Document not found") =>
          /\ ~HasKey(metadata.documents, result'.document_id)
          /\ Store' = Store]_vars

\* C13 witness: the not-found error was returned by a store that holds a
\* document and chunks, after an earlier call had raised
C13_Witness ==
    /\ result.op = "delete"
    /\ result.status = "error"
    /\ result.error = "Document not found"
    /\ Len(metadata.documents) = 1
    /\ Len(metadata.chunks) >= 1
    /\ faults = 1

\* the empty-store return of search_documents
EmptyIndexError(r) ==
    r.op = "search" /\ r.status = "error" /\ r.error = "No documents in the system"

\* C14: in a store with n >= 1 chunk entries every search_documents(q, k)
\* call with k >= 1 succeeds with exactly min(k, n) results.
C14_SearchReturnsMinKN ==
    [][\A q \in Texts, k \in TopKs :
          (Search(q, k, FALSE) /\ TotalChunks(metadata) >= 1) =>
             /\ SearchOk(result')
             /\ Len(result'.results) = Min(k, TotalChunks(metadata))]_vars

\* C15: a successful search_documents(q, k) returns at most k results, at
\* most as many as there are chunk entries, in non-increasing score order.
C15_SearchBoundedAndSorted ==
    [][\A q \in Texts, k \in TopKs :
          (Search(q, k, FALSE) /\ SearchOk(result')) =>
             /\ Len(result'.results) <= k
             /\ Len(result'.results) <= TotalChunks(metadata)
             /\ \A n \in 1..(Len(result'.results) - 1) :
                   result'.results[n].score >= result'.results[n + 1].score]_vars

\* C16: the index is empty exactly when metadata["chunks"] is, in every
\* state, and search_documents returns its empty-store error, without a
\* results list, exactly when the store holds no chunk entry.
C16_EmptyErrorIffNoChunks ==
    /\ IndexEmpty(index) <=> TotalChunks(metadata) = 0
    /\ result.op = "search" =>
          /\ EmptyIndexError(result) <=> TotalChunks(metadata) = 0
          /\ EmptyIndexError(result) => "results" \notin DOMAIN result

\* C17: when delete_document succeeds on the only document the store lists,
\* get_rag_stats then reports total_chunks 0 and search_documents finds the
\* index empty.
C17_DeleteOnlyDocumentEmptiesStore ==
    [][\A d \in DocIds :
          (Deleted(d) /\ Len(metadata.documents) = 1) =>
             /\ TotalChunks(metadata') = 0
             /\ IndexEmpty(index')]_vars

\* C18: in runs where no call raises, a restart loads the documents, chunks,
\* next_chunk_id and index rows the process had, so list_documents and
\* search_documents return what they returned before it.
C18_RestartRoundTrip ==
    [][result'.op = "restart" =>
          /\ metadata' = metadata
          /\ index' = index
          /\ ListResult(metadata') = ListResult(metadata)
          /\ \A q \in Texts, k \in TopKs :
                SearchOutcomes(metadata', index', chunk_files', q, k) =
                   SearchOutcomes(metadata, index, chunk_files, q, k)]_vars

\* C18 witness: a restart of a store that has seen uploads and a delete and
\* still holds a document
C18_Witness ==
    /\ result.op = "restart"
    /\ Len(metadata.documents) = 1
    /\ Len(index) >= 1
    /\ metadata.next_chunk_id > TotalChunks(metadata)

\* C19: after every completed upload_pdf or delete_document call, successful
\* or not, the metadata and index on disk are those in memory.
C19_MutationsAreFlushed ==
    result.op \in {"upload", "delete"} =>
        /\ LoadMetadata(metadata_file) = metadata
        /\ LoadOrCreateIndex(index_file) = index

\* C20: the store loaded after a crash between the metadata save and the
\* index save has as many index rows as chunk entries.
C20_CrashBetweenSavesIsConsistent ==
    result.op = "crash" => Len(index) = TotalChunks(metadata)

\* C25: from one state to the next, the record of a document that is there
\* before and after (name, original_path, chunk_ids, chunk_count) is the same.
C25_DocumentRecordIsImmutable ==
    [][\A d \in DocIds :
          (HasKey(metadata.documents, d) /\ HasKey(metadata'.documents, d)) =>
             DictGet(metadata'.documents, d) = DictGet(metadata.documents, d)]_vars

\* the early returns of upload_pdf
UploadRejections ==
    {"File not found", "File must be a PDF", "No text content found in PDF"}

\* C26: when upload_pdf returns its error for a missing path, for a suffix
\* other than .pdf in any case, or for a blank text, metadata (next_chunk_id
\* included), index and every file are as they were.
C26_RejectedUploadChangesNothing ==
    [][(/\ result'.op = "upload"
        /\ result'.status = "error"
        /\ result'.error \in UploadRejections) => Store' = Store]_vars

\* C26 witness: a PDF without text was rejected by a store that holds a
\* document, after an earlier call had raised
C26_Witness ==
    /\ result.op = "upload"
    /\ result.status = "error"
    /\ result.error = "No text content found in PDF"
    /\ Len(metadata.documents) = 1
    /\ faults = 1

\* the keys of metadata["documents"] in dictionary order
DocKeys(md) ==
    [i \in 1..Len(md.documents) |-> md.documents[i].k]

\* the members of a sequence
Members(seq) ==
    {seq[i] : i \in 1..Len(seq)}

\* the entries of seq that are (in = TRUE) or are not (in = FALSE) in set
Only(seq, set, in) ==
    SelectSeq(seq, LAMBDA x : (x \in set) = in)

\* what list_documents must return for md
ListMatches(r, md) ==
    /\ r.status = "success"
    /\ r.total_documents = Len(r.documents)
    /\ Len(r.documents) = Len(md.documents)
    /\ \A i \in 1..Len(r.documents) :
          /\ r.documents[i].document_id = md.documents[i].k
          /\ r.documents[i].name = md.documents[i].name
          /\ r.documents[i].chunk_count = Len(md.documents[i].chunk_ids)
    /\ \A i, j \in 1..Len(r.documents) :
          i # j => r.documents[i].document_id # r.documents[j].document_id

\* C27: the documents that are there before and after a step keep their
\* order, an upload_pdf puts a new document after them, and list_documents
\* returns every document once, in that order, with chunk_count the length
\* of its chunk_ids and total_documents the number of entries.
C27_ListInInsertionOrder ==
    [][/\ Only(DocKeys(metadata'), Members(DocKeys(metadata)), TRUE) =
             Only(DocKeys(metadata), Members(DocKeys(metadata')), TRUE)
       /\ result'.op = "upload" =>
             DocKeys(metadata') =
                Only(DocKeys(metadata'), Members(DocKeys(metadata)), TRUE) \o
                Only(DocKeys(metadata'), Members(DocKeys(metadata)), FALSE)
       /\ result'.op = "list" => ListMatches(result', metadata')]_vars

\* C27 witness: list_documents has returned two documents, the first of
\* them uploaded twice, after an earlier call had raised
C27_Witness ==
    /\ result.op = "list"
    /\ result.total_documents = 2
    /\ metadata.documents[1].chunk_ids # <<0>>
    /\ 0 \in issued
    /\ faults = 1

\* C28: search_documents, list_documents and get_rag_stats, whether they
\* succeed or return an error, leave metadata, index and every file as
\* they were.
C28_ReadsChangeNothing ==
    [][result'.op \in {"search", "list", "stats"} => Store' = Store]_vars

\* C28 witness: search_documents has returned its error for a call that
\* raised on a store holding a document
C28_Witness ==
    /\ result.op = "search"
    /\ result.status = "error"
    /\ result.error = "Search failed"
    /\ Len(metadata.documents) >= 1

\* an artifact metadata.json that exists and does not parse
MetadataCorrupt(file) ==
    file # <<>> /\ ~JsonParses(file[1])

\* upload_pdf or search_documents has gone as far as the index
RanAgainstIndex(r) ==
    \/ r.op = "search"
    \/ /\ r.op = "upload"
       /\ ~(r.status = "error" /\ r.error \in UploadRejections)

\* C23: a process never serves with an index whose dimension is not that of
\* the embeddings (the start fails instead), and no upload_pdf or
\* search_documents call runs against such an index.
C23_NoCallAgainstForeignIndex ==
    [][/\ proc' = "running" => ~DimMismatch(index')
       /\ RanAgainstIndex(result') => ~DimMismatch(index)]_vars

\* C24: a start over a metadata.json that does not parse ends with the
\* process aborted: no process serves over that artifact, the metadata is
\* not set to the initial empty state, and the artifact is left as it is.
C24_CorruptMetadataAbortsStartup ==
    [][MetadataCorrupt(metadata_file) =>
          /\ proc # "running"
          /\ proc' = "aborted"
          /\ metadata' # EmptyMetadata
          /\ metadata_file' = metadata_file]_vars

\* a start has aborted on a corrupt metadata.json that lies next to an index
\* artifact
C24_Witness ==
    /\ proc = "aborted"
    /\ result = [op |-> "restart", status |-> "aborted"]
    /\ MetadataCorrupt(metadata_file)
    /\ index_file # <<>>

\* the step is one iteration of the loop of _create_text_chunks
Iteration ==
    /\ chunker.pc = "while"
    /\ chunker'.pc \in {"while", "return"}
    /\ Len(chunker'.chunks) = Len(chunker.chunks) + 1

\* C29: on every iteration of _create_text_chunks, whatever chunk_size >= 1
\* and overlap >= 0, overlap >= chunk_size included, the window start
\* strictly advances (so that the loop terminates).
C29_StartStrictlyAdvances ==
    [][Iteration => chunker'.start > chunker.start]_vars

\* the highest position p of text, lo <= p < hi, that holds '.' or a newline;
\* -1 if there is none
LastTerminator(text, lo, hi) ==
    LET ps == {q \in lo..(hi - 1) : text[q + 1] \in {".", "\n"}}
    IN  IF ps = {} THEN -1 ELSE CHOOSE q \in ps : \A o \in ps : o <= q

\* C30: for every window [start, start + chunk_size) that ends before the end
\* of the text, start > 0 included: if the last '.' or newline of the window
\* lies past start + chunk_size // 2, the chunk is the text from start
\* through that terminator and the next window starts at the terminator's
\* position + 1 - overlap; otherwise the window ends at start + chunk_size.
C30_BreakPointTruncation ==
    [][(/\ Iteration
        /\ chunker.start >= 0
        /\ chunker.start + chunker.chunk_size < Len(chunker.text)) =>
          LET s == chunker.start
              t == LastTerminator(chunker.text, s, s + chunker.chunk_size)
              e == IF t > s + chunker.chunk_size \div 2
                   THEN t + 1 ELSE s + chunker.chunk_size
          IN  /\ chunker'.end = e
              /\ chunker'.start = e - chunker.overlap
              /\ chunker'.chunks[Len(chunker'.chunks)] =
                    Strip(SubSeq(chunker.text, s + 1, e))]_vars

\* position p of the text (counted from 0) lies in window i
InWindow(p, i) ==
    chunker.windows[i][1] <= p /\ p < chunker.windows[i][2]

\* C31: when a call with 0 <= overlap <= chunk_size // 2 has returned, every
\* position of the text lies in a window, every character that is not
\* whitespace lies in a window whose chunk was returned with it, and every
\* returned chunk is a non-blank piece of the text of at most chunk_size
\* characters.
C31_WindowsCoverText ==
    chunker.pc = "done" =>
       /\ \A p \in 0..(Len(chunker.text) - 1) :
             \E i \in 1..Len(chunker.windows) :
                /\ InWindow(p, i)
                /\ chunker.text[p + 1] \notin Whitespace =>
                      /\ \E j \in 1..Len(chunker.returned) :
                            chunker.returned[j] = chunker.chunks[i]
                      /\ \E q \in 1..Len(chunker.chunks[i]) :
                            /\ chunker.chunks[i][q] = chunker.text[p + 1]
                            /\ \E a \in 1..Len(chunker.text) :
                                  /\ a + q - 1 = p + 1
                                  /\ a + Len(chunker.chunks[i]) - 1 <= Len(chunker.text)
                                  /\ chunker.chunks[i] =
                                        SubSeq(chunker.text, a, a + Len(chunker.chunks[i]) - 1)
       /\ \A j \in 1..Len(chunker.returned) :
             /\ Strip(chunker.returned[j]) # <<>>
             /\ Len(chunker.returned[j]) <= chunker.chunk_size
             /\ \E a \in 1..Len(chunker.text) :
                   /\ a + Len(chunker.returned[j]) - 1 <= Len(chunker.text)
                   /\ chunker.returned[j] =
                         SubSeq(chunker.text, a, a + Len(chunker.returned[j]) - 1)

\* a call has returned after more than one window, the first of them cut at
\* a terminator, and with a blank chunk left out of what it returns
C31_Witness ==
    /\ chunker.pc = "done"
    /\ Len(chunker.windows) >= 2
    /\ chunker.windows[1][2] < chunker.chunk_size
    /\ Len(chunker.returned) < Len(chunker.chunks)
    /\ Len(chunker.returned) >= 1

SharesRegion(c, d, n) ==
    /\ n <= Len(c)
    /\ n <= Len(d)
    /\ SubSeq(c, Len(c) - n + 1, Len(c)) = SubSeq(d, 1, n)

\* C33: the default call in proportion, on any text of 2.5 x chunk_size
\* characters, returns 3 or 4 chunks, and the end of each returned chunk is
\* the beginning of the next over a region of 1..overlap characters.
C33_ThreeOrFourOverlappingChunks ==
    chunker.pc = "done" =>
       /\ Len(chunker.returned) \in {3, 4}
       /\ \A j \in 1..(Len(chunker.returned) - 1) :
             \E n \in 1..chunker.overlap :
                SharesRegion(chunker.returned[j], chunker.returned[j + 1], n)

\* C33, amended: the call takes 4 or 5 windows; each window but the first
\* starts overlap characters before the end of the one before, so that the
\* two share 1..overlap characters of the text; the chunks are the stripped
\* windows and those that are not blank are returned, none for a text of
\* whitespace.
C33_FourOrFiveOverlappingWindows ==
    chunker.pc = "done" =>
       /\ Len(chunker.windows) \in {4, 5}
       /\ \A i \in 1..(Len(chunker.windows) - 1) :
             /\ chunker.windows[i + 1][1] = chunker.windows[i][2] - chunker.overlap
             /\ Min(chunker.windows[i][2], Len(chunker.text)) - chunker.windows[i + 1][1]
                   \in 1..chunker.overlap
       /\ \A i \in 1..Len(chunker.windows) :
             chunker.chunks[i] =
                Strip(Slice(chunker.text, chunker.windows[i][1], chunker.windows[i][2]))
       /\ Len(chunker.returned) =
             Cardinality({i \in 1..Len(chunker.windows) : chunker.chunks[i] # <<>>})
       /\ Strip(chunker.text) = <<>> => chunker.returned = <<>>

\* a call has returned five chunks, the first two windows cut at a terminator
C33_Witness ==
    /\ chunker.pc = "done"
    /\ chunker.chunk_size = ScaledChunkSize
    /\ Len(chunker.windows) = 5
    /\ Len(chunker.returned) = 5
    /\ chunker.windows[1][2] < chunker.chunk_size
    /\ chunker.windows[2][2] - chunker.windows[2][1] < chunker.chunk_size

\* the chunk ids of the chunk metadata entries
SurvivingIds(md) ==
    {ChunkNum(md.chunks[i].k) : i \in 1..Len(md.chunks)}

\* the n-th smallest member of a set of numbers
NthSmallest(S, n) ==
    CHOOSE x \in S : Cardinality({y \in S : y < x}) = n - 1

\* C34: after a delete_document that succeeds in a run where nothing raises,
\* the index has one row per chunk metadata entry, and row i (from 0) holds
\* the saved embedding of the chunk with the (i+1)-th smallest chunk id.
C34_RebuiltIndexIsCompact ==
    [][DeleteOk(result') =>
          /\ Len(index') = Len(metadata'.chunks)
          /\ Cardinality(SurvivingIds(metadata')) = Len(metadata'.chunks)
          /\ \A i \in 1..Len(index') :
                LET key == Str(NthSmallest(SurvivingIds(metadata'), i))
                IN  /\ HasKey(emb_files', key)
                    /\ index'[i] = DictGet(emb_files', key).vec
                    /\ HasKey(chunk_files', key)
                    /\ index'[i] = Embed(DictGet(chunk_files', key).text)]_vars

\* a delete has succeeded and left two chunks, the first of them moved to
\* row 0 from a higher row, over embeddings that differ
C34_Witness ==
    /\ DeleteOk(result)
    /\ Len(index) = 2
    /\ Len(metadata.chunks) = 2
    /\ ChunkNum(metadata.chunks[1].k) > 0
    /\ index[1] # index[2]

RECURSIVE SumChunkCount(_)
\* the sum of chunk_count over the entries of a list_documents result
SumChunkCount(documents) ==
    IF documents = <<>>
    THEN 0
    ELSE Head(documents).chunk_count + SumChunkCount(Tail(documents))

\* C35: in every state between calls, the total_chunks of get_rag_stats is
\* the sum of chunk_count over the documents list_documents returns, and its
\* total_documents is the number of documents listed.
C35_StatsAgreeWithList ==
    /\ TotalChunks(metadata) = SumChunkCount(ListResult(metadata).documents)
    /\ Len(metadata.documents) = ListResult(metadata).total_documents
    /\ Len(metadata.documents) = Len(ListResult(metadata).documents)

\* the chunk ids handed out whose chunk metadata entry is gone: in runs
\* where nothing raises, the chunks delete_document has removed
RemovedIds ==
    issued \ SurvivingIds(metadata)

\* C36: in runs where nothing raises and the server is not restarted, no
\* result of search_documents carries the chunk_id of a chunk that
\* delete_document has removed, nor a text other than that of the chunk file
\* of a chunk still in the metadata.
C36_SearchNeverReturnsDeletedChunk ==
    SearchOk(result) =>
       \A n \in 1..Len(result.results) :
          /\ result.results[n].chunk_id \notin RemovedIds
          /\ result.results[n].chunk_id \in SurvivingIds(metadata)
          /\ HasKey(chunk_files, Str(result.results[n].chunk_id))
          /\ result.results[n].text =
                DictGet(chunk_files, Str(result.results[n].chunk_id)).text

\* a search after a delete has returned a chunk and skipped a row whose
\* number is the id of a removed chunk
C36_Witness ==
    /\ SearchOk(result)
    /\ RemovedIds # {}
    /\ Len(result.results) >= 1
    /\ Len(result.results) < Len(index)
    /\ \E c \in RemovedIds : c < Len(index)

\* C37: in a call with chunk_size >= 1 and 0 <= overlap <= chunk_size // 2,
\* every iteration begins at a start >= 0 and ends with a greater start,
\* cut or not, so that the loop makes at most len(text) iterations.
C37_StartIncreases ==
    [][/\ Iteration => (chunker.start >= 0 /\ chunker'.start > chunker.start)
       /\ chunker'.pc # "idle" => Len(chunker'.chunks) <= Len(chunker'.text)]_vars

\* a second window, begun past the beginning of the text, has been cut at a
\* terminator and the loop has gone on
C37_Witness ==
    /\ chunker.pc = "while"
    /\ Len(chunker.windows) = 2
    /\ chunker.windows[2][1] > 0
    /\ chunker.windows[2][2] < chunker.windows[2][1] + chunker.chunk_size
    /\ chunker.start > chunker.windows[2][1]

====
